---- MODULE Spec2Model ----
(***************************************************************************)
(* Live-status actor of swarm-fm-uptime-worker: the LiveStatusDO Durable   *)
(* Object (handshake, push, /update, websocket, /status, /flush) and the   *)
(* worker's scheduled reconciliation pass, as in the revision that holds   *)
(* all of them (src/unnamed/part_004).                                     *)
(*                                                                         *)
(* Strings the code inspects byte by byte (tokens, signatures, decimal     *)
(* numbers) are sequences of character codes; strings it only compares     *)
(* with === are TLA+ strings.  A handler is one action per stretch between *)
(* two awaits of an external service: the Durable Object's input gate      *)
(* keeps storage awaits from interleaving, an external fetch does not.     *)
(***************************************************************************)
EXTENDS Integers, Sequences, FiniteSets, TLC

\* ------------------------------------------------------------------ values

\* JavaScript undefined and null in a slot that otherwise holds a string.
Undefined == "<undefined>"
Null == "<null>"

\* A JavaScript number: an integer or NaN.
Num(n) == [nan |-> FALSE, n |-> n]
NaN == [nan |-> TRUE, n |-> 0]

\* An optional value (a header that may be missing, a storage key that may be
\* unset): <<>> or <<v>>.
None == <<>>
Some(v) == <<v>>

\* ------------------------------------------------------------------ bounds

\* Connections that may ever be open.
MaxConn == 2

\* Handlers that may be waiting on an external call at the same time.
MaxInFlight == 2

\* The clock starts here (milliseconds since the epoch, which is long past:
\* more than the flush cooldown).
T0 == 2000000

\* The longest byte strings handed to the comparison of secrets.
MaxTokenLen == 3

\* ------------------------------------------------------------- configuration

\* env.WEBHOOK_SECRET, env.VERIFY_TOKEN, env.UPDATE_SECRET
WEBHOOK_SECRET == <<115, 51>>
VERIFY_TOKEN == "verify-token"
UPDATE_SECRET == "update-secret"

expectedTopic == "https://www.youtube.com/xml/feeds/videos.xml?channel_id=UC2I6ta1bWX7DnEuYNvHiptQ"
hubCallback == "https://swarm-fm-uptime-worker.ktrain5169.workers.dev/webhook"
hubUrl == "https://pubsubhubbub.appspot.com/subscribe"

\* Number(env.PSHB_LEASE_SECONDS || "432000"), the variable left unset
leaseSec == 432000
\* (leaseSec * 1000) * 0.10: 43200000 exactly in double arithmetic
renewWindow == (leaseSec * 1000) \div 10
\* 30 * 60 * 1000
COOLDOWN == 1800000

\* ------------------------------------------------------------ byte strings

\* "sha256="
Sha256Prefix == <<115, 104, 97, 50, 53, 54, 61>>

startsWith(s, p) == Len(s) >= Len(p) /\ SubSeq(s, 1, Len(p)) = p
slice(s, k) == IF k >= Len(s) THEN <<>> ELSE SubSeq(s, k + 1, Len(s))

RECURSIVE BitXor(_, _)
BitXor(x, y) ==
  IF x = 0 /\ y = 0 THEN 0
  ELSE (((x % 2) + (y % 2)) % 2) + 2 * BitXor(x \div 2, y \div 2)

RECURSIVE BitOr(_, _)
BitOr(x, y) ==
  IF x = 0 /\ y = 0 THEN 0
  ELSE (IF x % 2 = 1 \/ y % 2 = 1 THEN 1 ELSE 0) + 2 * BitOr(x \div 2, y \div 2)

\* for (let i = 0; i < ua.length; i++) diff |= ua[i] ^ ub[i];
RECURSIVE equalsLoop(_, _, _, _)
equalsLoop(ua, ub, i, diff) ==
  IF i > Len(ua) THEN diff
  ELSE equalsLoop(ua, ub, i + 1, BitOr(diff, BitXor(ua[i], ub[i])))

\* a mutant: the comparison stops one byte short
equalsShort(a, b) ==
  IF Len(a) # Len(b) THEN FALSE
  ELSE equalsLoop(SubSeq(a, 1, Len(a) - 1), SubSeq(b, 1, Len(b) - 1), 1, 0) = 0

\* LiveStatusDO.equals: the length check, then the XOR accumulation.
equals(a, b) ==
  IF Len(a) # Len(b) THEN FALSE
  ELSE equalsLoop(a, b, 1, 0) = 0

\* The iterations of that loop from index i on: one ua[i] ^ ub[i] each; the
\* loop has no break.
RECURSIVE equalsLoopSteps(_, _, _)
equalsLoopSteps(ua, ub, i) ==
  IF i > Len(ua) THEN 0 ELSE 1 + equalsLoopSteps(ua, ub, i + 1)

\* a mutant: the loop stops at the first byte that differs
RECURSIVE stepsToMismatch(_, _, _)
stepsToMismatch(ua, ub, i) ==
  IF i > Len(ua) THEN 0
  ELSE IF ua[i] # ub[i] THEN 1
  ELSE 1 + stepsToMismatch(ua, ub, i + 1)
comparisonsEarlyExit(a, b) ==
  IF Len(a) # Len(b) THEN 0 ELSE stepsToMismatch(a, b, 1)

\* The byte comparisons LiveStatusDO.equals makes: none when the lengths
\* differ, else those of the loop.
comparisons(a, b) ==
  IF Len(a) # Len(b) THEN 0 ELSE equalsLoopSteps(a, b, 1)

\* One hexadecimal digit, lowercase.
hexDigit(d) == IF d < 10 THEN 48 + d ELSE 87 + d

\* b.toString(16): no leading zero
toString16(b) ==
  IF b < 16 THEN <<hexDigit(b)>> ELSE <<hexDigit(b \div 16), hexDigit(b % 16)>>

\* s.padStart(2, '0')
padStart2(s) == IF Len(s) < 2 THEN <<48>> \o s ELSE s

RECURSIVE joinHex(_)
joinHex(bytes) ==
  IF bytes = <<>> THEN <<>>
  ELSE padStart2(toString16(Head(bytes))) \o joinHex(Tail(bytes))

\* a mutant: the padStart is lost
RECURSIVE expectedHexNoPad(_)
expectedHexNoPad(bytes) ==
  IF bytes = <<>> THEN <<>>
  ELSE toString16(Head(bytes)) \o expectedHexNoPad(Tail(bytes))

\* Array.from(new Uint8Array(buf)).map(b => b.toString(16).padStart(2,'0')).join('')
expectedHexOf(bytes) == joinHex(bytes)

RECURSIVE mix(_, _)
mix(bytes, acc) ==
  IF bytes = <<>> THEN acc
  ELSE mix(Tail(bytes), (acc * 31 + Head(bytes)) % 256)

\* crypto.subtle HMAC-SHA256, reduced to a two-byte keyed digest: a
\* deterministic function of the key and of every byte of the data.
hmacSHA256(secret, data) ==
  <<mix(secret \o data, 7), mix(data \o secret, 11)>>

\* Node's digest('hex'): two digits per byte from the nibbles
RECURSIVE digestHex(_)
digestHex(bytes) ==
  IF bytes = <<>> THEN <<>>
  ELSE <<hexDigit(Head(bytes) \div 16), hexDigit(Head(bytes) % 16)>>
         \o digestHex(Tail(bytes))

\* utils computeSignature: 'sha256=' + hmac.digest('hex')
computeSignature(secret, payload) ==
  Sha256Prefix \o digestHex(hmacSHA256(secret, payload))

\* --------------------------------------------------------- decimal numbers

isDigit(c) == c >= 48 /\ c <= 57

RECURSIVE digitsValue(_, _)
digitsValue(s, acc) ==
  IF s = <<>> THEN acc ELSE digitsValue(Tail(s), acc * 10 + (Head(s) - 48))

\* Number(x) for x null, '' or a string: null and '' are 0, a run of digits
\* is its value, anything else is NaN.
Number(x) ==
  IF x = None THEN Num(0)
  ELSE IF x[1] = <<>> THEN Num(0)
  ELSE IF \A i \in 1..Len(x[1]) : isDigit(x[1][i]) THEN Num(digitsValue(x[1], 0))
  ELSE NaN

RECURSIVE decimal(_)
decimal(n) ==
  IF n < 10 THEN <<48 + n>> ELSE decimal(n \div 10) \o <<48 + (n % 10)>>

\* String(v) of a number: "NaN", or the decimal digits (no negative values
\* arise).
String(v) == IF v.nan THEN <<78, 97, 78>> ELSE decimal(v.n)

\* a + b and a * b on JavaScript numbers
Add(a, b) == IF a.nan \/ b.nan THEN NaN ELSE Num(a.n + b.n)
Mul(a, b) == IF a.nan \/ b.nan THEN NaN ELSE Num(a.n * b.n)

\* ------------------------------------------------------------------- state

VARIABLES
  now,          \* Date.now()
  videoId,      \* storage 'videoId': Undefined, Null or a video id
  pshbExpires,  \* storage 'pshbExpires': None or Some(number)
  lastFlush,    \* storage 'lastFlush': None or Some(number)
  clients,      \* the Set<WebSocket> of the Durable Object
  delivered,    \* per connection, the last message it received
  pushes,       \* POST /webhook handlers waiting on the videos lookup
  sched,        \* the scheduled pass: where it stands and what it read
  renewal,      \* the pass's renewal request on its way: None or Some(request)
  flushing,     \* POST /flush handlers waiting on the search
  resp,         \* the last handler step: operation, request, status, body
  scope         \* the limits of the exploration; never changes

vars == <<now, videoId, pshbExpires, lastFlush, clients, delivered, pushes,
          sched, renewal, flushing, resp, scope>>

persisted == <<videoId, pshbExpires, lastFlush>>

\* ------------------------------------------------------------------ inputs

\* hub.lease_seconds: missing, not a number, the default lease.
LeaseParams == { None, Some(<<97, 98, 99>>), Some(decimal(leaseSec)) }

\* The limits of an exploration: the clock readings, the connections, the
\* video ids, the handlers in flight, the hub.lease_seconds values tried,
\* and the ENABLE_SCHEDULED setting of the deployment.
\*
\* ActorScope: every handler with two connections and two video ids; two clock
\* readings a cooldown apart.
ActorScope ==
  [times |-> {T0, T0 + COOLDOWN}, conns |-> MaxConn, vids |-> {"v1", "v2"},
   inflight |-> 1, leases |-> {None}, enable |-> "true"]

\* LeaseScope: the clock at the start; at the last instant at which a default
\* lease taken at the start is not yet inside the renewal window, and at the
\* first at which it is. Every hub.lease_seconds value.
LeaseScope ==
  LET edge == T0 + leaseSec * 1000 - renewWindow
  IN [times |-> {T0, edge, edge + 1}, conns |-> 1, vids |-> {"v1"},
      inflight |-> 1, leases |-> LeaseParams, enable |-> "true"]

\* FlushScope: the clock at the start, one millisecond before a cooldown has
\* passed, and when it has.
FlushScope ==
  [times |-> {T0, T0 + COOLDOWN - 1, T0 + COOLDOWN}, conns |-> 1,
   vids |-> {"v1"}, inflight |-> 1, leases |-> {None}, enable |-> "true"]

\* SendScope, for the broadcasts: every connection, one id.
SendScope ==
  [times |-> {T0, T0 + COOLDOWN}, conns |-> MaxConn, vids |-> {"v1"},
   inflight |-> 1, leases |-> {None}, enable |-> "true"]

\* RaceScope: handlers interleave at their external calls.
RaceScope ==
  [times |-> {T0, T0 + COOLDOWN}, conns |-> 1, vids |-> {"v1", "v2"},
   inflight |-> MaxInFlight, leases |-> {None}, enable |-> "true"]

\* The query of GET /webhook: the hub's verification request for every
\* hub.lease_seconds tried; the same with one parameter altered; with all altered.
Modes == {"subscribe", "unsubscribe"}
Topics == {expectedTopic, "https://example.org/feed"}
Challenges == {"XYZ123", "", Null}
VerifyTokens == {VERIFY_TOKEN, "wrong"}
Query(mode, topic, challenge, verifyTok, lease) ==
  [mode |-> mode, topic |-> topic, challenge |-> challenge,
   verifyTok |-> verifyTok, lease |-> lease]
HandshakeRequests ==
  { Query("subscribe", expectedTopic, "XYZ123", VERIFY_TOKEN, l) : l \in scope.leases }
  \cup { Query(m, expectedTopic, "XYZ123", VERIFY_TOKEN, None) : m \in Modes }
  \cup { Query("subscribe", t, "XYZ123", VERIFY_TOKEN, None) : t \in Topics }
  \cup { Query("subscribe", expectedTopic, c, VERIFY_TOKEN, None) : c \in Challenges }
  \cup { Query("subscribe", expectedTopic, "XYZ123", v, None) : v \in VerifyTokens }
  \cup { Query("unsubscribe", "https://example.org/feed", "", "wrong", None) }

\* env.ENABLE_SCHEDULED: "true", and every setting under SpecSwitch
ENABLE_SCHEDULED == scope.enable

Times == scope.times
Vids == scope.vids
Conn == 1..scope.conns

\* X-Webhook-Token: missing, the secret, a byte changed at either end,
\* shorter, longer.
Tokens ==
  { None, Some(WEBHOOK_SECRET), Some(<<115, 52>>), Some(<<114, 51>>),
    Some(<<115>>), Some(<<115, 51, 51>>) }
BadTokens == Tokens \ {Some(WEBHOOK_SECRET)}

\* Raw request bodies (stand-ins for the Atom documents) and what
\* fast-xml-parser makes of each: no feed element; a feed with no entry; one
\* entry with an id; several entries; an entry with no yt:videoId.
Raws == { <<1>>, <<2>>, <<3>>, <<4>>, <<13>> }

Entry(v) == [ytVideoId |-> v]

XMLParse(raw) ==
  CASE raw = <<1>> -> [feed |-> FALSE, isArray |-> FALSE, entry |-> <<>>]
    [] raw = <<2>> -> [feed |-> TRUE, isArray |-> FALSE, entry |-> <<>>]
    [] raw = <<3>> -> [feed |-> TRUE, isArray |-> FALSE, entry |-> <<Entry("v1")>>]
    [] raw = <<4>> -> [feed |-> TRUE, isArray |-> TRUE,
                       entry |-> <<Entry("v2"), Entry("v1")>>]
    [] OTHER -> [feed |-> TRUE, isArray |-> FALSE, entry |-> <<Entry(Undefined)>>]

\* an uppercase rendering of a lowercase hex string
upper(s) == [i \in 1..Len(s) |-> IF s[i] >= 97 THEN s[i] - 32 ELSE s[i]]

\* X-Hub-Signature-256 for a body: missing; the reference signature; the
\* same in uppercase; the signature of another body; a sha1= header; the bare
\* hex; the bare prefix.
SigHeaders(raw) ==
  LET good == digestHex(hmacSHA256(WEBHOOK_SECRET, raw))
      other == digestHex(hmacSHA256(WEBHOOK_SECRET, raw \o <<0>>))
  IN { None, Some(Sha256Prefix \o good), Some(Sha256Prefix \o upper(good)),
       Some(Sha256Prefix \o other), Some(<<115, 104, 97, 49, 61>> \o good),
       Some(good), Some(Sha256Prefix) }

\* What the videos endpoint may answer: a non-success status (with a body
\* the handlers never read: none, or one that would count as live), no item,
\* an item without liveStreamingDetails, details without and with an end time.
NoDetails == [present |-> FALSE, actualEndTime |-> Undefined]
Details(e) == [present |-> TRUE, actualEndTime |-> e]
VideosResponses ==
  { [ok |-> FALSE, items |-> <<>>],
    [ok |-> FALSE, items |-> <<[liveStreamingDetails |-> Details(Undefined)]>>],
    [ok |-> TRUE, items |-> <<>>],
    [ok |-> TRUE, items |-> <<[liveStreamingDetails |-> NoDetails]>>],
    [ok |-> TRUE, items |-> <<[liveStreamingDetails |-> Details(Undefined)]>>],
    [ok |-> TRUE, items |-> <<[liveStreamingDetails |-> Details("2025-01-01T00:00:00Z")]>>] }

\* What the search endpoint may answer.
SearchResponses ==
  { [ok |-> FALSE, items |-> <<>>], [ok |-> TRUE, items |-> <<>>] }
  \cup { [ok |-> TRUE, items |-> <<v>>] : v \in Vids }

\* ------------------------------------------------------------- small helpers

\* a mutant: only null and undefined are falsy
truthyUnlessNullish(v) == v \notin {Undefined, Null}

\* JavaScript truthiness of a string-or-null-or-undefined value
truthy(v) == v \notin {Undefined, Null, ""}

\* JSON.stringify({ live, videoId }): a key whose value is undefined is left out
NoJson == [none |-> TRUE]
JSONstringify(live, vid) ==
  IF vid = Undefined THEN [live |-> live] ELSE [live |-> live, videoId |-> vid]

NoMsg == [none |-> TRUE]

\* What a handler step answered: the status and body of the HTTP response, the
\* x-pshb-expires header, and the console line it wrote last; with it, the
\* request the step read (GET and POST /webhook).
NoLog == <<>>
NoReq == [none |-> TRUE]
Response(op, status, text, json, hdr, log) ==
  [op |-> op, req |-> NoReq, status |-> status, text |-> text, json |-> json,
   hdr |-> hdr, log |-> log]

\* status 0: the handler is suspended on an external call, nothing returned yet
Pending == 0

Idle == [pc |-> "idle", videoId |-> Undefined]

InFlight == Cardinality(pushes) + flushing + (IF sched.pc = "idle" THEN 0 ELSE 1)

\* a mutant: the loop is left out
sendToNone(msg) == delivered

\* a mutant: the loop leaves out the highest-numbered open connection
sendToAllButOne(msg) ==
  [c \in Conn |-> IF c \in clients /\ c + 1 \in clients THEN msg ELSE delivered[c]]

\* for (const ws of this.clients) ws.send(msg): the messages each connection
\* has last received, after the loop
sendToAll(msg) ==
  [c \in Conn |-> IF c \in clients THEN msg ELSE delivered[c]]

Start ==
  /\ now = T0
  /\ videoId = Undefined
  /\ pshbExpires = None
  /\ lastFlush = None
  /\ clients = {}
  /\ delivered = [c \in Conn |-> NoMsg]
  /\ pushes = {}
  /\ sched = Idle
  /\ renewal = None
  /\ flushing = 0
  /\ resp = Response("none", Pending, "", NoJson, None, NoLog)

\* Time passes.
Tick ==
  /\ \E t \in Times : t > now /\ now' = t
  /\ resp' = Response("tick", Pending, "", NoJson, None, NoLog)
  /\ UNCHANGED <<scope, videoId, pshbExpires, lastFlush, clients, delivered,
                 pushes, sched, renewal, flushing>>

\* ------------------------------------------------- 1) handshake, GET /webhook

\* a mutant: the topic is not looked at
handshakeAnyTopic(mode, topic, verifyTok, challenge) ==
  mode = "subscribe" /\ verifyTok = VERIFY_TOKEN /\ truthy(challenge)

\* a mutant: the challenge is not looked at
handshakeIgnoresChallenge(mode, topic, verifyTok, challenge) ==
  mode = "subscribe" /\ topic = expectedTopic /\ verifyTok = VERIFY_TOKEN

\* mode === 'subscribe' && topic === expectedTopic
\*   && verifyTok === this.env.VERIFY_TOKEN && challenge
handshakeAccepts(mode, topic, verifyTok, challenge) ==
  /\ mode = "subscribe"
  /\ topic = expectedTopic
  /\ verifyTok = VERIFY_TOKEN
  /\ truthy(challenge)

\* Number(url.searchParams.get("hub.lease_seconds")) ?? 432_000: Number()
\* yields neither null nor undefined, so the right operand is never taken.
leaseSeconds(param) == Number(param)

\* Date.now() + leaseSeconds * 1000
expiresAt(param) == Add(Num(now), Mul(leaseSeconds(param), Num(1000)))

WebhookGet(mode, topic, challenge, verifyTok, lease) ==
  LET answer(status, text) ==
        [Response("GET /webhook", status, text, NoJson, None, NoLog)
           EXCEPT !.req = Query(mode, topic, challenge, verifyTok, lease)]
  IN
  /\ IF handshakeAccepts(mode, topic, verifyTok, challenge)
       THEN /\ pshbExpires' = Some(expiresAt(lease))
            /\ resp' = answer(200, challenge)
       ELSE /\ pshbExpires' = pshbExpires
            /\ resp' = answer(400, "Invalid subscription request")
  /\ UNCHANGED <<scope, now, videoId, lastFlush, clients, delivered, pushes, sched,
                 renewal, flushing>>

\* ----------------------------------------------- 2) notification, POST /webhook

\* request.headers.get(name) ?? ''
headerOrEmpty(h) == IF h = None THEN <<>> ELSE h[1]

\* The two checks at the head of the handler: "ok", or the body of the 401.
authenticate(tokenHdr, sigHdr, raw) ==
  LET token == headerOrEmpty(tokenHdr)
      sigHeader == headerOrEmpty(sigHdr)
      expectedHex == expectedHexOf(hmacSHA256(WEBHOOK_SECRET, raw))
      actualHex == slice(sigHeader, 7)
  IN IF ~equals(token, WEBHOOK_SECRET) THEN "Unauthorized"
     ELSE IF startsWith(sigHeader, Sha256Prefix) /\ ~equals(actualHex, expectedHex)
       THEN "Unauthorized (bad signature)"
     ELSE "ok"

\* authenticate on every request tried, worked out once.
Push(tokenHdr, sigHdr, raw) == [tokenHdr |-> tokenHdr, sigHdr |-> sigHdr, raw |-> raw]
PushRequests ==
  UNION { { Push(tokenHdr, sigHdr, raw) : tokenHdr \in Tokens, sigHdr \in SigHeaders(raw) }
          : raw \in Raws }
authentication == [q \in PushRequests |-> authenticate(q.tokenHdr, q.sigHdr, q.raw)]

\* Array.isArray(obj.feed.entry) ? obj.feed.entry[0] : obj.feed.entry, then
\* entry?.['yt:videoId']  (for a document that has a feed)
firstVideoId(obj) ==
  IF obj.entry = <<>> THEN Undefined ELSE obj.entry[1].ytVideoId

\* a mutant: the status of the lookup is not looked at
lookupFailedNever(r) == FALSE

\* !ytRes.ok
lookupFailed(r) == ~r.ok

\* a mutant: anything the lookup returns counts as a livestream
isLivestreamAlways(r) == TRUE

\* !!item?.liveStreamingDetails, item = data.items?.[0]
isLivestream(r) ==
  r.items # <<>> /\ r.items[1].liveStreamingDetails.present

\* Up to the lookup: authentication, decoding, and the request to the videos
\* endpoint.
WebhookPost(tokenHdr, sigHdr, raw) ==
  LET auth == authentication[Push(tokenHdr, sigHdr, raw)]
      obj == XMLParse(raw)
      vid == firstVideoId(obj)
      answer(status, text, json, log) ==
        [Response("POST /webhook", status, text, json, None, log)
           EXCEPT !.req = Push(tokenHdr, sigHdr, raw)]
  IN
  /\ IF auth # "ok"
       THEN /\ resp' = answer(401, auth, NoJson, NoLog)
            /\ pushes' = pushes
     ELSE IF ~obj.feed
       \* obj.feed.entry throws; the worker's fetch answers 500
       THEN /\ resp' = answer(500, "", [error |-> "TypeError"],
                              <<"Error in fetch handler:">>)
            /\ pushes' = pushes
     ELSE IF ~truthy(vid)
       THEN /\ resp' = answer(204, Null, NoJson, NoLog)
            /\ pushes' = pushes
     ELSE /\ InFlight < scope.inflight
          /\ vid \notin pushes
          /\ pushes' = pushes \cup {vid}
          /\ resp' = answer(Pending, "", NoJson, NoLog)
  /\ UNCHANGED <<scope, now, videoId, pshbExpires, lastFlush, clients, delivered, sched,
                 renewal, flushing>>

\* a mutant: the handler gives way to a flush that is waiting for its search
WebhookLookupDoneUnlessFlushing(vid, r) ==
  /\ vid \in pushes
  /\ pushes' = pushes \ {vid}
  /\ IF flushing = 0 /\ ~lookupFailed(r) /\ isLivestream(r)
       THEN /\ videoId' = vid
            /\ delivered' = sendToAll(JSONstringify(TRUE, vid))
       ELSE UNCHANGED <<videoId, delivered>>
  /\ resp' = Response("POST /webhook", 204, Null, NoJson, None, NoLog)
  /\ UNCHANGED <<scope, now, pshbExpires, lastFlush, clients, sched, renewal, flushing>>

\* From the answer of the videos endpoint to the 204.
WebhookLookupDone(vid, r) ==
  /\ vid \in pushes
  /\ pushes' = pushes \ {vid}
  /\ IF lookupFailed(r)
       THEN /\ resp' = Response("POST /webhook", 204, Null, NoJson, None,
                                <<"YouTube lookup failed for", vid>>)
            /\ UNCHANGED <<videoId, delivered>>
     ELSE IF isLivestream(r)
       THEN /\ videoId' = vid
            /\ delivered' = sendToAll(JSONstringify(TRUE, vid))
            /\ resp' = Response("POST /webhook", 204, Null, NoJson, None,
                                <<"Detected livestream:", vid>>)
     ELSE /\ resp' = Response("POST /webhook", 204, Null, NoJson, None,
                              <<"Ignoring non-livestream video:", vid>>)
          /\ UNCHANGED <<videoId, delivered>>
  /\ UNCHANGED <<scope, now, pshbExpires, lastFlush, clients, sched, renewal, flushing>>

\* --------------------------------------------------------- 3) POST /update

\* X-Control-Token values and JSON bodies
ControlTokens == {UPDATE_SECRET, "wrong", Null}
UpdateBodies ==
  { [valid |-> FALSE, videoId |-> Undefined] }
  \cup { [valid |-> TRUE, videoId |-> v] : v \in Vids \cup {Null, "", Undefined} }

\* a mutant: any X-Control-Token passes
authorizedAlways(token) == TRUE

\* token !== this.env.UPDATE_SECRET, negated
authorized(token) == token = UPDATE_SECRET

\* a mutant: the body's value is stored whatever it is
storedAsGiven(v) == v

\* if (videoId) put('videoId', videoId) else delete('videoId'): the stored
\* value after it
stored(v) == IF truthy(v) THEN v ELSE Undefined

\* The handler of POST /update on the present state.
update(op, token, body) ==
  IF ~authorized(token)
    THEN /\ resp' = Response(op, 403, Null, NoJson, None, NoLog)
         /\ UNCHANGED <<videoId, delivered>>
  ELSE IF ~body.valid
    \* request.json() throws; the worker's fetch answers 500
    THEN /\ resp' = Response(op, 500, "", [error |-> "SyntaxError"], None,
                             <<"Error in fetch handler:">>)
         /\ UNCHANGED <<videoId, delivered>>
  ELSE /\ videoId' = stored(body.videoId)
       /\ delivered' = sendToAll(JSONstringify(truthy(body.videoId), body.videoId))
       /\ resp' = Response(op, 204, Null, NoJson, None, NoLog)

\* a mutant: the handler also marks a flush
UpdateMarkingFlush(token, body) ==
  /\ update("POST /update", token, body)
  /\ lastFlush' = Some(now)
  /\ UNCHANGED <<scope, now, pshbExpires, clients, pushes, sched, renewal, flushing>>

Update(token, body) ==
  /\ update("POST /update", token, body)
  /\ UNCHANGED <<scope, now, pshbExpires, lastFlush, clients, pushes, sched, renewal,
                 flushing>>

\* ------------------------------------------------- 4) websocket upgrade, GET /

\* a mutant: the socket joins the set and is sent nothing
ConnectSilently(c) ==
  /\ c \notin clients
  /\ clients' = clients \cup {c}
  /\ resp' = Response("GET /", 101, Null, NoJson, None, NoLog)
  /\ UNCHANGED <<scope, now, videoId, pshbExpires, lastFlush, delivered, pushes, sched,
                 renewal, flushing>>

\* a mutant: the socket is not added before the send
clientsBeforeAdd(c) == clients

\* this.clients when server.send runs (line 181): the socket was added to it
\* at line 175, and only storage is awaited in between.
clientsAtSnapshot(c) == clients \cup {c}

\* Upgrade: websocket. The socket joins the set, then is sent the stored state.
Connect(c) ==
  /\ c \notin clients
  /\ clients' = clientsAtSnapshot(c)
  /\ delivered' = [delivered EXCEPT ![c] = JSONstringify(truthy(videoId), videoId)]
  /\ resp' = Response("GET /", 101, Null, NoJson, None, NoLog)
  /\ UNCHANGED <<scope, now, videoId, pshbExpires, lastFlush, pushes, sched, renewal,
                 flushing>>

\* No Upgrade header, or another value.
NoUpgrade ==
  /\ resp' = Response("GET /", 426, "",
                      [error |-> "Expected WebSocket upgrade on / (or /api/uptime)"],
                      None, NoLog)
  /\ UNCHANGED <<scope, now, videoId, pshbExpires, lastFlush, clients, delivered, pushes,
                 sched, renewal, flushing>>

\* The socket's close event: this.clients.delete(server)
Close(c) ==
  /\ c \in clients
  /\ clients' = clients \ {c}
  /\ delivered' = [delivered EXCEPT ![c] = NoMsg]
  /\ resp' = Response("close", Pending, "", NoJson, None, NoLog)
  /\ UNCHANGED <<scope, now, videoId, pshbExpires, lastFlush, pushes, sched, renewal,
                 flushing>>

\* ------------------------------------------------------------ 5) GET /status

\* a mutant: the expiry header is never set
statusResponseNoHeader(op) ==
  Response(op, 200, "", JSONstringify(truthy(videoId), videoId), None, NoLog)

\* The /status response on the present state.
statusResponse(op) ==
  Response(op, 200, "", JSONstringify(truthy(videoId), videoId),
           IF pshbExpires # None THEN Some(String(pshbExpires[1])) ELSE None, NoLog)

Status ==
  /\ resp' = statusResponse("GET /status")
  /\ UNCHANGED <<scope, now, videoId, pshbExpires, lastFlush, clients, delivered, pushes,
                 sched, renewal, flushing>>

\* ------------------------------------------------------------ unknown routes

OtherPaths == {"/ws", "/subscribe"}

notFound(op) == Response(op, 404, "", [error |-> "Not found"], None, NoLog)

NotFound(path) ==
  /\ resp' = notFound(path)
  /\ UNCHANGED <<scope, now, videoId, pshbExpires, lastFlush, clients, delivered, pushes,
                 sched, renewal, flushing>>

\* ------------------------------------------------------------ 6) POST /flush

\* Math.ceil(x / 1000) for x > 0
ceilSeconds(x) == (x + 999) \div 1000

\* a mutant: the comparison takes the boundary in
coolingDownInclusive(since) == since <= COOLDOWN

\* a mutant: no cooldown
coolingDownNever(since) == FALSE

\* since < COOLDOWN
coolingDown(since) == since < COOLDOWN

\* a mutant: the flush is not marked
markedNot(t) == lastFlush

\* this.state.storage.put('lastFlush', now): the stored value after it
marked(t) == Some(t)

\* a mutant: the search's items are not read
firstLiveNone(r) == Null

\* data.items?.[0]?.id.videoId ?? null
firstLive(r) == IF r.items = <<>> THEN Null ELSE r.items[1]

\* a mutant: the status of the search is not looked at
searchFailedNever(r) == FALSE

\* !ytRes.ok, of the search
searchFailed(r) == ~r.ok

\* Up to the search: the cooldown check and the new lastFlush.
\* a mutant: the accepted flush goes to the search before lastFlush is written
FlushSearchingUnmarked ==
  LET since == now - (IF lastFlush = None THEN 0 ELSE lastFlush[1])
  IN
  /\ ~coolingDown(since)
  /\ InFlight < scope.inflight
  /\ flushing' = flushing + 1
  /\ resp' = Response("POST /flush", Pending, "", NoJson, None, NoLog)
  /\ UNCHANGED <<scope, now, videoId, pshbExpires, lastFlush, clients, delivered, pushes,
                 sched, renewal>>

Flush ==
  LET lastFlushOr0 == IF lastFlush = None THEN 0 ELSE lastFlush[1]
      since == now - lastFlushOr0
  IN
  /\ IF coolingDown(since)
       THEN /\ resp' = Response("POST /flush", 429, "",
                                [error |-> "Stop hitting the API.",
                                 retry_after |-> ceilSeconds(COOLDOWN - since),
                                 statusText |-> "Cooldown is active."],
                                None, NoLog)
            /\ UNCHANGED <<lastFlush, flushing>>
       ELSE /\ InFlight < scope.inflight
            /\ lastFlush' = marked(now)
            /\ flushing' = flushing + 1
            /\ resp' = Response("POST /flush", Pending, "", NoJson, None, NoLog)
  /\ UNCHANGED <<scope, now, videoId, pshbExpires, clients, delivered, pushes, sched,
                 renewal>>

\* From the answer of the search endpoint to the response.
FlushSearchDone(r) ==
  LET newVid == firstLive(r)
  IN
  /\ flushing > 0
  /\ flushing' = flushing - 1
  /\ IF searchFailed(r)
       THEN /\ resp' = Response("POST /flush", 502, "",
                                [error |-> "YouTube Data API error"], None, NoLog)
            /\ UNCHANGED <<videoId, delivered>>
       ELSE /\ videoId' = newVid
            /\ delivered' = sendToAll(JSONstringify(truthy(newVid), newVid))
            /\ resp' = Response("POST /flush", IF truthy(newVid) THEN 200 ELSE 404, "",
                                JSONstringify(truthy(newVid), newVid), None, NoLog)
  /\ UNCHANGED <<scope, now, pshbExpires, lastFlush, clients, pushes, sched, renewal>>

\* ------------------------------------------------------- the scheduled pass

\* The form of the renewal request.
renewalForm ==
  [mode |-> "subscribe", topic |-> expectedTopic, callback |-> hubCallback,
   verify_token |-> VERIFY_TOKEN, secret |-> WEBHOOK_SECRET,
   lease_seconds |-> decimal(leaseSec)]

\* stub.fetch("https://pubsubhubbub.appspot.com/subscribe", { method: "POST",
\* body: form }): a request handed to the Durable Object's stub is delivered
\* to the Durable Object, whatever the host of its URL.
renewalRequest ==
  [to |-> "LIVE_DO", url |-> hubUrl, method |-> "POST", form |-> renewalForm]

\* const { videoId } = await statusRes.json()
jsonVideoId(j) == IF "videoId" \in DOMAIN j THEN j.videoId ELSE Undefined

\* The Date the pass makes of the x-pshb-expires header, or null:
\* the header must be a non-empty string and Number() of it not NaN.
expiresOf(expiryHeader) ==
  IF expiryHeader = None \/ expiryHeader = Some(<<>>) THEN None
  ELSE IF Number(expiryHeader).nan THEN None
  ELSE Some(Number(expiryHeader).n)

\* a mutant: an unknown expiry renews too
renewsWhenUnknown(expires) == expires = None \/ expires[1] - now < renewWindow

\* expires && expires - now < renewWindow
renews(expires) == expires # None /\ expires[1] - now < renewWindow

\* a mutant: whatever the lookup returns, the stream has ended
hasEndedAlways(r) == TRUE

\* a mutant: an end time alone decides
hasEndedByEndTimeOnly(r) ==
  r.items # <<>> /\ truthy(r.items[1].liveStreamingDetails.actualEndTime)

\* !details || !!details.actualEndTime, details = data.items?.[0]?.liveStreamingDetails
hasEnded(r) ==
  \/ r.items = <<>>
  \/ ~r.items[1].liveStreamingDetails.present
  \/ truthy(r.items[1].liveStreamingDetails.actualEndTime)

\* a mutant: only an unset or empty setting ends the pass
switchedOffWhenUnset(setting) == ~truthy(setting)

\* !env.ENABLE_SCHEDULED || env.ENABLE_SCHEDULED !== "true"
switchedOff(setting) == ~truthy(setting) \/ setting # "true"

\* The pass up to its videos lookup: the /status read, the renewal decision and
\* request (stub.fetch: the request goes to the Durable Object, not awaited),
\* the ENABLE_SCHEDULED switch, the recorded video id.
SchedStart ==
  LET statusRes == statusResponse("scheduled")
      expires == expiresOf(statusRes.hdr)
      line == IF expires # None THEN <<"PSHB sub expires at">>
              ELSE IF statusRes.hdr = None \/ statusRes.hdr = Some(<<>>)
                THEN <<"No PSHB header returned.">>
              ELSE <<"PSHB header is invalid, header: ">>
      vid == jsonVideoId(statusRes.json)
  IN
  /\ sched.pc = "idle"
  /\ IF renews(expires)
       THEN renewal = None /\ renewal' = Some(renewalRequest)
       ELSE renewal' = renewal
  /\ IF switchedOff(ENABLE_SCHEDULED) \/ ~truthy(vid)
       THEN sched' = Idle
       ELSE InFlight < scope.inflight /\ sched' = [pc |-> "lookup", videoId |-> vid]
  /\ resp' = [statusRes EXCEPT !.log = line]
  /\ UNCHANGED <<scope, now, videoId, pshbExpires, lastFlush, clients, delivered, pushes,
                 flushing>>

\* The answer of the videos endpoint for the recorded id.
SchedLookupDone(r) ==
  /\ sched.pc = "lookup"
  /\ IF lookupFailed(r)
       THEN /\ sched' = Idle
            /\ resp' = Response("scheduled", Pending, "", NoJson, None,
                                <<"Encountered an error with YouTube API">>)
     ELSE IF hasEnded(r)
       THEN /\ sched' = [sched EXCEPT !.pc = "update"]
            /\ resp' = Response("scheduled", Pending, "", NoJson, None, NoLog)
     ELSE /\ sched' = Idle
          /\ resp' = Response("scheduled", Pending, "", NoJson, None, NoLog)
  /\ UNCHANGED <<scope, now, videoId, pshbExpires, lastFlush, clients, delivered, pushes,
                 renewal, flushing>>

\* a mutant: the pass's POST /update carries a token that is not the secret
SchedUpdateUnauthorized ==
  /\ sched.pc = "update"
  /\ sched' = Idle
  /\ update("scheduled POST /update", "wrong", [valid |-> TRUE, videoId |-> Null])
  /\ UNCHANGED <<scope, now, pshbExpires, lastFlush, clients, pushes, renewal, flushing>>

\* The pass's POST /update { videoId: null } reaches the Durable Object.
SchedUpdate ==
  /\ sched.pc = "update"
  /\ sched' = Idle
  /\ update("scheduled POST /update", UPDATE_SECRET, [valid |-> TRUE, videoId |-> Null])
  /\ UNCHANGED <<scope, now, pshbExpires, lastFlush, clients, pushes, renewal, flushing>>

\* a mutant: the answer to the renewal request drops the stored expiry
RenewalArrivesStoring ==
  /\ renewal # None
  /\ renewal' = None
  /\ pshbExpires' = None
  /\ resp' = [Response("POST /subscribe", 404, "", [error |-> "Not found"], None,
                        <<"PSHB sub renew failed: ", "404">>)
                EXCEPT !.req = NoReq]
  /\ UNCHANGED <<scope, now, videoId, lastFlush, clients, delivered, pushes,
                 sched, flushing>>

\* a mutant: the failed request is sent again at once
RenewalArrivesRetrying ==
  /\ renewal # None
  /\ renewal' = Some(renewalRequest)
  /\ resp' = [notFound("POST /subscribe") EXCEPT
                !.log = <<"PSHB sub renew failed: ", "404">>]
  /\ UNCHANGED <<scope, now, videoId, pshbExpires, lastFlush, clients, delivered, pushes,
                 sched, flushing>>

\* The renewal request reaches the Durable Object: POST /subscribe is no route
\* of it, and the pass's then() logs the 404.
RenewalArrives ==
  /\ renewal # None
  /\ renewal[1].to = "LIVE_DO"
  /\ renewal' = None
  /\ resp' = [notFound("POST /subscribe") EXCEPT
                !.log = <<"PSHB sub renew failed: ", "404">>]
  /\ UNCHANGED <<scope, now, videoId, pshbExpires, lastFlush, clients, delivered, pushes,
                 sched, flushing>>

\* ------------------------------------------------- a send that throws

\* for (const ws of this.clients) ws.send(msg) when a send throws: the
\* connections the loop reached before it (got) have the message, the one
\* whose send threw and those after it have not. this.clients iterates in
\* insertion order, which is not kept here: got is any set of the others.
sendUntilThrow(msg, got) ==
  [c \in Conn |-> IF c \in got THEN msg ELSE delivered[c]]

\* The exception leaves LiveStatusDO.fetch; the worker's fetch answers 500.
thrown(op) ==
  Response(op, 500, "", [error |-> "TypeError"], None, <<"Error in fetch handler:">>)

\* POST /webhook, the lookup answered live: the id is stored, then a send
\* of the loop throws.
WebhookSendThrows(vid, r, f, got) ==
  /\ vid \in pushes
  /\ ~lookupFailed(r) /\ isLivestream(r)
  /\ f \in clients /\ got \subseteq clients \ {f}
  /\ pushes' = pushes \ {vid}
  /\ videoId' = vid
  /\ delivered' = sendUntilThrow(JSONstringify(TRUE, vid), got)
  /\ resp' = thrown("POST /webhook")
  /\ UNCHANGED <<scope, now, pshbExpires, lastFlush, clients, sched, renewal, flushing>>

\* POST /update with the right token and a JSON body: the id is stored or
\* deleted, then a send of the loop throws.
updateSendThrows(op, body, f, got) ==
  /\ body.valid
  /\ f \in clients /\ got \subseteq clients \ {f}
  /\ videoId' = stored(body.videoId)
  /\ delivered' = sendUntilThrow(JSONstringify(truthy(body.videoId), body.videoId), got)
  /\ resp' = thrown(op)

UpdateSendThrows(body, f, got) ==
  /\ updateSendThrows("POST /update", body, f, got)
  /\ UNCHANGED <<scope, now, pshbExpires, lastFlush, clients, pushes, sched, renewal,
                 flushing>>

\* POST /flush, the search answered: the result is stored, then a send of
\* the loop throws.
FlushSendThrows(r, f, got) ==
  /\ flushing > 0
  /\ ~searchFailed(r)
  /\ f \in clients /\ got \subseteq clients \ {f}
  /\ flushing' = flushing - 1
  /\ videoId' = firstLive(r)
  /\ delivered' = sendUntilThrow(JSONstringify(truthy(firstLive(r)), firstLive(r)), got)
  /\ resp' = thrown("POST /flush")
  /\ UNCHANGED <<scope, now, pshbExpires, lastFlush, clients, pushes, sched, renewal>>

\* The pass's POST /update { videoId: null }, a send of whose loop throws:
\* stub.fetch rejects and the pass ends there.
SchedUpdateSendThrows(f, got) ==
  /\ sched.pc = "update"
  /\ sched' = Idle
  /\ updateSendThrows("scheduled POST /update", [valid |-> TRUE, videoId |-> Null], f, got)
  /\ UNCHANGED <<scope, now, pshbExpires, lastFlush, clients, pushes, renewal, flushing>>

\* ----------------------------------------------------------- specification

\* The requests tried. A request the first check turns away is tried with one
\* value of what the handler then never reads.
Next ==
  \/ Tick
  \/ \E q \in HandshakeRequests :
       WebhookGet(q.mode, q.topic, q.challenge, q.verifyTok, q.lease)
  \/ \E raw \in Raws :
       \E sigHdr \in IF raw = <<3>> THEN SigHeaders(raw)
                     ELSE {None, Some(computeSignature(WEBHOOK_SECRET, raw))} :
         WebhookPost(Some(WEBHOOK_SECRET), sigHdr, raw)
  \/ \E tokenHdr \in BadTokens :
       \E sigHdr \in IF tokenHdr = None
                     THEN {None, Some(computeSignature(WEBHOOK_SECRET, <<3>>))}
                     ELSE {Some(computeSignature(WEBHOOK_SECRET, <<3>>))} :
         WebhookPost(tokenHdr, sigHdr, <<3>>)
  \/ \E vid \in Vids, r \in VideosResponses : WebhookLookupDone(vid, r)
  \/ \E body \in UpdateBodies : Update(UPDATE_SECRET, body)
  \/ \E token \in ControlTokens \ {UPDATE_SECRET} :
       Update(token, [valid |-> TRUE, videoId |-> Null])
  \/ \E c \in Conn : Connect(c)
  \/ NoUpgrade
  \/ \E c \in Conn : Close(c)
  \/ Status
  \/ \E path \in OtherPaths : NotFound(path)
  \/ Flush
  \/ \E r \in SearchResponses : FlushSearchDone(r)
  \/ SchedStart
  \/ \E r \in VideosResponses : SchedLookupDone(r)
  \/ SchedUpdate
  \/ RenewalArrives

\* The actor: all handlers, two connections.
Init == scope = ActorScope /\ Start
Spec == Init /\ [][Next]_vars

\* The lease: the clock around the renewal window and the cooldown.
InitLease == scope = LeaseScope /\ Start
SpecLease == InitLease /\ [][Next]_vars

\* The flush: the clock around the cooldown.
InitFlush == scope = FlushScope /\ Start
SpecFlush == InitFlush /\ [][Next]_vars

\* The same requests, and the broadcasts in which a send throws. Next takes
\* ws.send never to throw; NextSend does not.
NextSend ==
  \/ Next
  \/ \E f \in Conn, vid \in Vids, r \in VideosResponses :
       \E got \in SUBSET (Conn \ {f}) : WebhookSendThrows(vid, r, f, got)
  \/ \E f \in Conn, body \in UpdateBodies :
       \E got \in SUBSET (Conn \ {f}) : UpdateSendThrows(body, f, got)
  \/ \E f \in Conn, r \in SearchResponses :
       \E got \in SUBSET (Conn \ {f}) : FlushSendThrows(r, f, got)
  \/ \E f \in Conn : \E got \in SUBSET (Conn \ {f}) : SchedUpdateSendThrows(f, got)

InitSend == scope = SendScope /\ Start
SpecSend == InitSend /\ [][NextSend]_vars

\* Interleaved handlers.
InitRace == scope = RaceScope /\ Start
SpecRace == InitRace /\ [][Next]_vars

\* The deployment's switch: every handler with one connection and one id,
\* under each ENABLE_SCHEDULED setting: "true", other strings, unset.
Settings == {"true", "false", "TRUE", Undefined}
SwitchScope ==
  [times |-> {T0, T0 + COOLDOWN}, conns |-> 1, vids |-> {"v1"},
   inflight |-> 1, leases |-> {None}, enable |-> "true"]
InitSwitch ==
  /\ scope \in {[SwitchScope EXCEPT !.enable = e] : e \in Settings}
  /\ Start
SpecSwitch == InitSwitch /\ [][Next]_vars

\* The pass under fair scheduling, with one connection and one id, and of
\* the requests those that are accepted: the hub's verification request, a
\* signed push for the id, POST /update with the secret, a connection and
\* its close, a flush. The cron trigger fires again and again whatever else
\* the object does (strong fairness: here a pass waits while another handler
\* is at its external call); a fetch that was started is answered, and the
\* handler that awaits it then takes its next step; a request handed to the
\* stub is delivered.
LiveScope ==
  [times |-> {T0, T0 + COOLDOWN}, conns |-> 1, vids |-> {"v1"},
   inflight |-> 1, leases |-> {None}, enable |-> "true"]
NextLive ==
  \/ Tick
  \/ WebhookGet("subscribe", expectedTopic, "XYZ123", VERIFY_TOKEN, None)
  \/ WebhookPost(Some(WEBHOOK_SECRET), Some(computeSignature(WEBHOOK_SECRET, <<3>>)), <<3>>)
  \/ \E vid \in Vids, r \in VideosResponses : WebhookLookupDone(vid, r)
  \/ \E v \in Vids \cup {Null} : Update(UPDATE_SECRET, [valid |-> TRUE, videoId |-> v])
  \/ \E c \in Conn : Connect(c)
  \/ \E c \in Conn : Close(c)
  \/ Flush
  \/ \E r \in SearchResponses : FlushSearchDone(r)
  \/ SchedStart
  \/ \E r \in VideosResponses : SchedLookupDone(r)
  \/ SchedUpdate
  \/ RenewalArrives
InitLive == scope = LiveScope /\ Start
Scheduling ==
  /\ SF_vars(SchedStart)
  /\ WF_vars(\E r \in VideosResponses : SchedLookupDone(r))
  /\ WF_vars(SchedUpdate)
  /\ WF_vars(RenewalArrives)
  /\ WF_vars(\E vid \in Vids, r \in VideosResponses : WebhookLookupDone(vid, r))
  /\ WF_vars(\E r \in SearchResponses : FlushSearchDone(r))
SpecLive == InitLive /\ [][NextLive]_vars /\ Scheduling

\* ------------------------------------------------------------ properties

\* The last step read a POST /webhook request; a GET /webhook request.
ReadPush(r) == r.op = "POST /webhook" /\ r.req # NoReq
ReadQuery(r) == r.op = "GET /webhook" /\ r.req # NoReq

\* The reference signature of a body: the utility's computeSignature.
Signed(raw) == Some(computeSignature(WEBHOOK_SECRET, raw))

\* The requests with the right token and the reference signature or none.
WellSigned ==
  { Push(Some(WEBHOOK_SECRET), None, raw) : raw \in Raws }
  \cup { Push(Some(WEBHOOK_SECRET), Signed(raw), raw) : raw \in Raws }

LiveMsg(vid) == [live |-> TRUE, videoId |-> vid]
EndedMsg == [live |-> FALSE, videoId |-> Null]

\* C1: an authenticated POST /webhook hands the first entry's video id to the
\* videos lookup; when the lookup returns an item with liveStreamingDetails,
\* the step that resumes the handler stores that id, sends
\* {live:true, videoId:id} to every open connection and answers 204, all in
\* that one step.
C1Step ==
  /\ (/\ ReadPush(resp')
      /\ resp'.req \in WellSigned
      /\ resp'.req.raw \in {<<3>>, <<4>>})
       => /\ resp'.status = Pending
          /\ pushes' = pushes \cup {XMLParse(resp'.req.raw).entry[1].ytVideoId}
  /\ \A vid \in Vids : \A r \in VideosResponses :
       (/\ r.ok
        /\ r.items # <<>>
        /\ r.items[1].liveStreamingDetails.present
        /\ WebhookLookupDone(vid, r))
         => /\ videoId' = vid
            /\ \A c \in clients : delivered'[c] = LiveMsg(vid)
            /\ resp'.op = "POST /webhook"
            /\ resp'.status = 204
C2Step ==
  /\ \A r \in VideosResponses :
       (/\ r.ok
        /\ \/ r.items = <<>>
           \/ ~r.items[1].liveStreamingDetails.present
           \/ r.items[1].liveStreamingDetails.actualEndTime # Undefined
        /\ SchedLookupDone(r))
         => sched' = [pc |-> "update", videoId |-> sched.videoId]
  /\ SchedUpdate
       => /\ videoId' = Undefined
          /\ \A c \in clients : delivered'[c] = EndedMsg
          /\ resp'.status = 204
C3Check ==
  \A q \in PushRequests :
    q.tokenHdr \in BadTokens
      => authenticate(q.tokenHdr, q.sigHdr, q.raw) = "Unauthorized"
C3Step ==
  (ReadPush(resp') /\ resp'.req.tokenHdr \in BadTokens)
    => /\ resp'.status = 401
       /\ UNCHANGED <<videoId, pshbExpires, lastFlush, clients, delivered,
                      pushes, sched, renewal, flushing>>
C3 == [][C3Check /\ C3Step]_vars

\* A token one byte off was turned away, its body correctly signed, while a
\* stream is recorded and a connection is open.
C3Witness ==
  /\ ReadPush(resp)
  /\ resp.req = Push(Some(<<115, 52>>), Signed(<<3>>), <<3>>)
  /\ resp.status = 401
  /\ videoId = "v1"
  /\ clients # {}

\* C4: with the right token, every present X-Hub-Signature-256 other than
\* sha256= followed by the lowercase hex digest of the body is answered 401.
C4 ==
  (/\ ReadPush(resp)
   /\ resp.req.tokenHdr = Some(WEBHOOK_SECRET)
   /\ resp.req.sigHdr # None
   /\ resp.req.sigHdr # Signed(resp.req.raw))
    => resp.status = 401

\* C5: with the right token, the reference signature of the body passes the
\* worker's check for every body, and so does a request with no signature
\* header.
C5Check ==
  \A q \in WellSigned : authenticate(q.tokenHdr, q.sigHdr, q.raw) = "ok"
C5 ==
  /\ C5Check
  /\ (ReadPush(resp) /\ resp.req \in WellSigned) => resp.status # 401

\* A signed request whose digest has a byte below 16 passed authentication:
\* its document has no video id, and it was answered 204.
C5Witness ==
  /\ ReadPush(resp)
  /\ resp.req = Push(Some(WEBHOOK_SECRET), Signed(<<13>>), <<13>>)
  /\ resp.status = 204

\* The four conditions of the handshake, on a query.
Verifies(q) ==
  /\ q.mode = "subscribe"
  /\ q.topic = expectedTopic
  /\ q.verifyTok = VERIFY_TOKEN
  /\ q.challenge \notin {Null, ""}

\* C6: GET /webhook answers 200 with the challenge as its body exactly when
\* hub.mode is subscribe, hub.topic the expected feed, hub.verify_token the
\* configured token and hub.challenge present and not empty; any other query
\* is answered 400 and leaves the stored values and the connections alone.
C6Check ==
  \A mode \in Modes : \A topic \in Topics : \A challenge \in Challenges :
    \A verifyTok \in VerifyTokens :
      handshakeAccepts(mode, topic, verifyTok, challenge)
        <=> Verifies(Query(mode, topic, challenge, verifyTok, None))
C6Step ==
  ReadQuery(resp')
    => IF Verifies(resp'.req)
         THEN resp'.status = 200 /\ resp'.text = resp'.req.challenge
         ELSE /\ resp'.status = 400
              /\ UNCHANGED <<videoId, pshbExpires, lastFlush, clients, delivered>>
C6 == [][C6Check /\ C6Step]_vars

\* The hub's verification request was answered with its challenge.
C6Witness ==
  /\ ReadQuery(resp)
  /\ Verifies(resp.req)
  /\ resp.status = 200
  /\ resp.text = "XYZ123"

\* hub.lease_seconds as the handshake is specified to read it: its value, and
\* the default lease when it is missing or not a number.
leaseOrDefault(param) ==
  IF param = None \/ Number(param).nan THEN leaseSec ELSE Number(param).n

\* C7: after an accepted handshake the stored pshbExpires is
\* now + leaseSeconds * 1000, leaseSeconds being hub.lease_seconds, or 432000
\* when that is missing or not a number.
C7 ==
  (ReadQuery(resp) /\ resp.status = 200)
    => pshbExpires = Some(Num(now + leaseOrDefault(resp.req.lease) * 1000))

\* C8: pshbExpires changes in no step but an accepted handshake: a GET
\* /webhook whose query meets the four conditions, answered 200.
C8Step ==
  pshbExpires' # pshbExpires
    => ReadQuery(resp') /\ Verifies(resp'.req) /\ resp'.status = 200
C8 == [][C8Step]_vars

\* A flush ran to its end, and a renewal request was answered, with the
\* handshake's value still stored.
C8Witness ==
  /\ pshbExpires = Some(Num(T0))
  /\ now > T0
  /\ lastFlush = Some(now)
  /\ resp.op = "POST /subscribe"
  /\ resp.status = 404

\* The stored pshbExpires is a number the pass can read.
Readable == pshbExpires # None /\ ~pshbExpires[1].nan
InWindow == pshbExpires[1].n - now < (leaseSec * 1000) \div 10
ToHub(request) ==
  /\ request # None
  /\ request[1].to = "pubsubhubbub.appspot.com"
  /\ request[1].form = renewalForm

\* C9: a pass that reads a stored pshbExpires sends the subscribe form to
\* the hub exactly when pshbExpires - now is below a tenth of the lease.
C9Step ==
  (Readable /\ renewal = None /\ SchedStart) => (ToHub(renewal') <=> InWindow)
C9 == [][C9Step]_vars

\* C10, as the code has it: a pass that finds no pshbExpires it can read
\* (none stored, or NaN stored) sends no renewal request.
C10Step == (~Readable /\ SchedStart) => renewal' = renewal
C10 == [][C10Step]_vars

\* C10, as stated: such a pass still sends a renewal request.
C10Stated == [][(~Readable /\ renewal = None /\ SchedStart) => renewal' # None]_vars

\* A pass ran with nothing stored, a cooldown after the start, and no
\* renewal request is on its way.
C10Witness ==
  /\ resp.op = "scheduled"
  /\ resp.log = <<"No PSHB header returned.">>
  /\ pshbExpires = None
  /\ renewal = None
  /\ now > T0

\* C11: the renewal request is not awaited. The pass that issues it starts
\* its ended-stream lookup in the same step, whether or not a request is
\* issued; the answer to the request (a failure: 404) changes no stored
\* value, no message and no position of the pass; and the lookup's answer
\* is taken the same way while the request is still unanswered.
C11Step ==
  /\ resp'.op = "POST /subscribe"
       => /\ renewal # None
          /\ renewal' = None
          /\ UNCHANGED <<persisted, sched, delivered, clients, pushes, flushing>>
  /\ (sched.pc = "idle" /\ resp'.op = "scheduled")
       => /\ UNCHANGED persisted
          /\ sched' = IF truthy(videoId) THEN [pc |-> "lookup", videoId |-> videoId]
                      ELSE Idle
  /\ (renewal # None /\ sched.pc = "lookup")
       => \A r \in VideosResponses :
            (~lookupFailed(r) /\ hasEnded(r) /\ SchedLookupDone(r))
              => sched'.pc = "update"
  /\ (renewal # None /\ sched.pc = "update" /\ resp'.op = "scheduled POST /update")
       => ~truthy(videoId') /\ sched' = Idle
C11 == [][C11Step]_vars

\* A pass issued a renewal request, found its stream ended and cleared the
\* id, all before the request was answered; the stored expiry is the
\* handshake's.
C11Witness ==
  /\ resp.op = "scheduled POST /update"
  /\ resp.status = 204
  /\ renewal = Some(renewalRequest)
  /\ ~truthy(videoId)
  /\ pshbExpires = Some(Num(T0))
  /\ sched = Idle

\* C12: when the lookup for a pushed id answers successfully with no item,
\* or with an item that has no liveStreamingDetails, the step that resumes
\* the handler answers 204 and leaves the stored values and every
\* connection's last message as they were.
C12Step ==
  pushes # {}
    => \A vid \in pushes : \A r \in VideosResponses :
         (/\ r.ok
          /\ (r.items = <<>> \/ ~r.items[1].liveStreamingDetails.present)
          /\ WebhookLookupDone(vid, r))
           => /\ UNCHANGED <<persisted, delivered, clients>>
              /\ resp'.op = "POST /webhook"
              /\ resp'.status = 204
C12 == [][C12Step]_vars

\* With v2 live and announced to every connection, a push for v1 was looked
\* up and ignored.
C12Witness ==
  /\ resp.op = "POST /webhook"
  /\ resp.status = 204
  /\ resp.log = <<"Ignoring non-livestream video:", "v1">>
  /\ videoId = "v2"
  /\ clients = 1..MaxConn
  /\ \A c \in clients : delivered[c] = LiveMsg("v2")

\* C13: when the lookup for a pushed id answers with a non-success status,
\* whatever its body, the step that resumes the handler answers 204 and
\* leaves the stored values and every connection's last message as they were.
C13Step ==
  pushes # {}
    => \A vid \in pushes : \A r \in VideosResponses :
         (~r.ok /\ WebhookLookupDone(vid, r))
           => /\ UNCHANGED <<persisted, delivered, clients>>
              /\ resp'.op = "POST /webhook"
              /\ resp'.status = 204
C13 == [][C13Step]_vars

\* With v2 live and announced to every connection, the lookup for a pushed
\* v1 failed.
C13Witness ==
  /\ resp.op = "POST /webhook"
  /\ resp.status = 204
  /\ resp.log = <<"YouTube lookup failed for", "v1">>
  /\ videoId = "v2"
  /\ clients = 1..MaxConn
  /\ \A c \in clients : delivered[c] = LiveMsg("v2")

\* C14: an authenticated push whose body yields no video id (no feed
\* element, a feed with no entry, a first entry without yt:videoId) is
\* answered 204 with no lookup started.
C14 ==
  (/\ ReadPush(resp)
   /\ resp.req \in WellSigned
   /\ (~XMLParse(resp.req.raw).feed
         \/ ~truthy(firstVideoId(XMLParse(resp.req.raw)))))
    => resp.status = 204

\* C15: a pass that finds no id recorded stops without a lookup; a pass
\* whose lookup answers with a non-success status, or with an item whose
\* liveStreamingDetails has no actualEndTime, stops without its POST
\* /update. In each case, and in the pass's first step always, the stored
\* values and every connection's last message stay as they were.
C15Step ==
  /\ (sched.pc = "idle" /\ resp'.op = "scheduled")
       => /\ UNCHANGED <<persisted, delivered, clients>>
          /\ ~truthy(videoId) => sched' = Idle
  /\ sched.pc = "lookup"
       => \A r \in VideosResponses :
            (/\ \/ ~r.ok
                \/ /\ r.items # <<>>
                   /\ r.items[1].liveStreamingDetails.present
                   /\ ~truthy(r.items[1].liveStreamingDetails.actualEndTime)
             /\ SchedLookupDone(r))
              => /\ sched' = Idle
                 /\ UNCHANGED <<persisted, delivered, clients>>
C15 == [][C15Step]_vars

\* A pass looked up the recorded v1, found it still live and stopped; v1 is
\* still stored and still the last message of every connection.
C15Witness ==
  /\ resp = Response("scheduled", Pending, "", NoJson, None, NoLog)
  /\ sched = Idle
  /\ videoId = "v1"
  /\ clients = 1..MaxConn
  /\ \A c \in clients : delivered[c] = LiveMsg("v1")

\* C16: the first step of a POST /flush taken less than COOLDOWN after the
\* stored lastFlush answers 429 with retry_after at least one second, starts
\* no search and leaves the stored values (lastFlush among them), the
\* connections and their messages unchanged; with COOLDOWN or more elapsed,
\* or nothing stored, the flush is accepted and goes on to the search.
C16Step ==
  (resp'.op = "POST /flush" /\ resp'.status \in {429, Pending})
    => IF lastFlush # None /\ now - lastFlush[1] < COOLDOWN
         THEN /\ resp'.status = 429
              /\ resp'.json.retry_after > 0
              /\ resp'.json.retry_after * 1000 >= COOLDOWN - (now - lastFlush[1])
              /\ UNCHANGED <<persisted, delivered, clients, flushing>>
         ELSE /\ resp'.status = Pending
              /\ flushing' = flushing + 1
C16 == [][C16Step]_vars

\* A flush one millisecond before the end of the cooldown: 429, one second
\* to wait, the accepted flush's time still stored.
C16Witness ==
  /\ resp.op = "POST /flush"
  /\ resp.status = 429
  /\ resp.json.retry_after = 1
  /\ lastFlush = Some(T0)
  /\ now = T0 + COOLDOWN - 1
  /\ flushing = 0

\* C17: the step that accepts a flush stores lastFlush = now before the
\* search is started; while a search is outstanding lastFlush is stored; and
\* the step that takes the search's answer, a failure included, leaves
\* lastFlush as it is.
C17Step ==
  /\ (resp'.op = "POST /flush" /\ resp'.status = Pending)
       => lastFlush' = Some(now) /\ now' = now
  /\ flushing' > 0 => lastFlush' # None
  /\ (resp'.op = "POST /flush" /\ resp'.status \in {200, 404, 502})
       => lastFlush # None /\ UNCHANGED lastFlush
C17 == [][C17Step]_vars

\* The search of a flush accepted at the later time failed: the flush's time
\* is stored all the same.
C17Witness ==
  /\ resp.op = "POST /flush"
  /\ resp.status = 502
  /\ flushing = 0
  /\ now = T0 + COOLDOWN
  /\ lastFlush = Some(now)

\* C18: when the search of an accepted flush answers successfully, the step
\* that takes the answer, with a first item, stores its id, sends
\* {live:true, videoId:id} to every open connection and answers 200 with the
\* same document; with no item, stores no live id, sends
\* {live:false, videoId:null} to every open connection and answers 404 with
\* the same document.
C18Step ==
  flushing > 0
    => \A r \in SearchResponses :
         (r.ok /\ FlushSearchDone(r))
           => /\ resp'.op = "POST /flush"
              /\ IF r.items # <<>>
                   THEN /\ videoId' = r.items[1]
                        /\ resp'.status = 200
                        /\ resp'.json = LiveMsg(r.items[1])
                        /\ \A c \in clients : delivered'[c] = LiveMsg(r.items[1])
                   ELSE /\ ~truthy(videoId')
                        /\ resp'.status = 404
                        /\ resp'.json = EndedMsg
                        /\ \A c \in clients : delivered'[c] = EndedMsg
C19Step ==
  /\ pushes # {}
       => \A vid \in pushes : \A r \in VideosResponses :
            (~r.ok /\ WebhookLookupDone(vid, r))
              => resp'.status = 204 /\ UNCHANGED <<videoId, delivered>>
  /\ sched.pc = "lookup"
       => \A r \in VideosResponses :
            (~r.ok /\ SchedLookupDone(r))
              => sched' = Idle /\ UNCHANGED <<videoId, delivered>>
  /\ resp'.op = "POST /subscribe" => UNCHANGED <<videoId, delivered>>
  /\ flushing > 0
       => \A r \in SearchResponses :
            (~r.ok /\ FlushSearchDone(r))
              => /\ resp'.op = "POST /flush"
                 /\ resp'.status = 502
                 /\ resp'.json = [error |-> "YouTube Data API error"]
                 /\ UNCHANGED <<videoId, delivered>>
C19 == [][C19Step]_vars

\* C19, as stated: no failure of the lookup or of the search is answered
\* with an error status, and the stored id stays as it was.
C19StatedStep ==
  /\ pushes # {}
       => \A vid \in pushes : \A r \in VideosResponses :
            (~r.ok /\ WebhookLookupDone(vid, r))
              => resp'.status < 400 /\ UNCHANGED videoId
  /\ flushing > 0
       => \A r \in SearchResponses :
            (~r.ok /\ FlushSearchDone(r))
              => resp'.status < 400 /\ UNCHANGED videoId
C19Stated == [][C19StatedStep]_vars

\* The search of a flush failed with v1 stored and announced to every
\* connection: 502, and v1 is still stored and still the last message.
C19Witness ==
  /\ resp.op = "POST /flush"
  /\ resp.status = 502
  /\ resp.json = [error |-> "YouTube Data API error"]
  /\ videoId = "v1"
  /\ clients = 1..MaxConn
  /\ \A c \in clients : delivered[c] = LiveMsg("v1")

\* C20: lastFlush is written by no step but the one that accepts a flush,
\* and, with other handlers suspended at their fetch in any order, the value
\* that step stores is greater than the value it replaces.
C20Step ==
  /\ (resp'.op = "POST /flush" /\ resp'.status = Pending)
       => /\ lastFlush' # None
          /\ lastFlush # None => lastFlush'[1] > lastFlush[1]
  /\ lastFlush' # lastFlush
       => resp'.op = "POST /flush" /\ resp'.status = Pending
C20 == [][C20Step]_vars

\* A second flush was accepted a cooldown after the first, whose search has
\* not answered yet: the later time replaced the earlier.
C20Witness ==
  /\ resp.op = "POST /flush"
  /\ resp.status = Pending
  /\ flushing = 2
  /\ lastFlush = Some(T0 + COOLDOWN)

\* C21: the first message of a connection is the snapshot of the stored id:
\* {live:true, videoId:id} when an id is stored, and {live:false,
\* videoId:null}, with the videoId key present, when none is.
C21Step ==
  \A c \in Conn :
    (c \notin clients /\ c \in clients')
      => delivered'[c] = IF truthy(videoId) THEN LiveMsg(videoId) ELSE EndedMsg
C21 == [][C21Step]_vars

\* C22: in a broadcast in which the send to one connection throws, that
\* connection leaves the set of connections and every other connection
\* still receives the message.
C22Step ==
  \A f \in clients : \A got \in SUBSET (clients \ {f}) :
    /\ \A body \in UpdateBodies :
         UpdateSendThrows(body, f, got)
           => /\ clients' = clients \ {f}
              /\ \A c \in clients' :
                   delivered'[c] = JSONstringify(truthy(body.videoId), body.videoId)
    /\ \A vid \in pushes : \A r \in VideosResponses :
         WebhookSendThrows(vid, r, f, got)
           => /\ clients' = clients \ {f}
              /\ \A c \in clients' : delivered'[c] = LiveMsg(vid)
    /\ \A r \in SearchResponses :
         FlushSendThrows(r, f, got)
           => /\ clients' = clients \ {f}
              /\ \A c \in clients' :
                   delivered'[c] = JSONstringify(truthy(firstLive(r)), firstLive(r))
    /\ SchedUpdateSendThrows(f, got)
         => /\ clients' = clients \ {f}
            /\ \A c \in clients' : delivered'[c] = EndedMsg
C22 == [][C22Step]_vars

\* The live id a stored value stands for, if any.
effective(v) == IF truthy(v) THEN v ELSE Null

\* C23: with sends that do not throw, every step that changes the live id
\* the stored value stands for is a step of POST /webhook, POST /update (the
\* pass's included) or POST /flush, and in that same step every open
\* connection is sent the new snapshot: live with the new id, or not live.
C23Step ==
  effective(videoId') # effective(videoId)
    => /\ resp'.op \in {"POST /webhook", "POST /update", "scheduled POST /update",
                        "POST /flush"}
       /\ \A c \in clients' :
            /\ "live" \in DOMAIN delivered'[c]
            /\ delivered'[c].live = truthy(videoId')
            /\ truthy(videoId') => delivered'[c] = LiveMsg(videoId')
C24Step ==
  resp'.op = "POST /update"
    => \A body \in UpdateBodies :
         (body.valid /\ Update(UPDATE_SECRET, body))
           => /\ videoId' = IF body.videoId \in Vids THEN body.videoId ELSE Undefined
              /\ \A c \in clients :
                   IF body.videoId \in Vids
                     THEN delivered'[c] = LiveMsg(body.videoId)
                     ELSE /\ delivered'[c].live = FALSE
                          /\ "videoId" \in DOMAIN delivered'[c]
                               => ~truthy(delivered'[c].videoId)
              /\ resp'.status = 204
              /\ UNCHANGED <<pshbExpires, lastFlush, clients>>
C25Step ==
  resp'.op = "POST /update"
    => /\ \A token \in ControlTokens \ {UPDATE_SECRET} : \A body \in UpdateBodies :
            Update(token, body)
              => /\ resp'.status = 403
                 /\ UNCHANGED <<persisted, delivered, clients>>
       /\ \A body \in UpdateBodies :
            (~body.valid /\ Update(UPDATE_SECRET, body))
              => /\ resp'.status >= 400
                 /\ UNCHANGED <<persisted, delivered, clients>>
C25 == [][C25Step]_vars

\* With v1 stored and announced to every connection, a POST /update was
\* turned away with 403.
C25Witness ==
  /\ resp.op = "POST /update"
  /\ resp.status = 403
  /\ videoId = "v1"
  /\ clients = 1..MaxConn
  /\ \A c \in clients : delivered[c] = LiveMsg("v1")

\* POST /update { videoId: null }
NullBody == [valid |-> TRUE, videoId |-> Null]

\* C26: POST /update { videoId: null } with the control token leaves no id
\* stored and pshbExpires and lastFlush as they were; taken again right
\* after itself it changes no stored value and no connection, and every
\* open connection's last message is again {live:false, videoId:null}.
C26Step ==
  (resp'.op = "POST /update" /\ Update(UPDATE_SECRET, NullBody))
    => /\ videoId' = Undefined
       /\ UNCHANGED <<pshbExpires, lastFlush, clients>>
       /\ (resp.op = "POST /update" /\ resp.status = 204 /\ videoId = Undefined)
            => /\ UNCHANGED persisted
               /\ \A c \in clients : delivered'[c] = EndedMsg
C26 == [][C26Step]_vars

\* After a handshake and a flush, POST /update { videoId: null } has been
\* answered: no id is stored, the expiry and the flush time are, and every
\* connection was told {live:false, videoId:null}. The same request again
\* leads to this very state.
C26Witness ==
  /\ resp.op = "POST /update"
  /\ resp.status = 204
  /\ videoId = Undefined
  /\ clients = 1..MaxConn
  /\ \A c \in clients : delivered[c] = EndedMsg
  /\ pshbExpires # None
  /\ lastFlush # None

\* C27: GET /status answers 200 with {live, videoId} of the id stored at
\* that moment: live with the id when one is stored, not live otherwise; it
\* carries x-pshb-expires, the stored pshbExpires as text, exactly when a
\* pshbExpires is stored; and it changes no stored value, no connection and
\* no message.
C27Step ==
  resp'.op = "GET /status"
    => /\ resp'.status = 200
       /\ resp'.json.live = truthy(videoId)
       /\ truthy(videoId) => resp'.json = LiveMsg(videoId)
       /\ "videoId" \in DOMAIN resp'.json => resp'.json.videoId = videoId
       /\ resp'.hdr # None <=> pshbExpires # None
       /\ pshbExpires # None => resp'.hdr = Some(String(pshbExpires[1]))
       /\ UNCHANGED <<persisted, clients, delivered, pushes, sched, renewal, flushing>>
C27 == [][C27Step]_vars

\* GET /status with v1 stored, an expiry stored and a connection open.
C27Witness ==
  /\ resp.op = "GET /status"
  /\ resp.status = 200
  /\ resp.json = LiveMsg("v1")
  /\ pshbExpires # None
  /\ resp.hdr = Some(String(pshbExpires[1]))
  /\ videoId = "v1"
  /\ clients # {}

\* C28, as the code has it: a request to / (the mount point) with Upgrade:
\* websocket is answered 101, adds one connection and sends it the document
\* of the stored id; without the upgrade it is answered 426 and changes
\* nothing; a request to /ws is answered 404 and changes nothing.
C28Step ==
  /\ resp'.op = "GET /"
       => \/ /\ resp'.status = 101
             /\ \E c \in Conn \ clients :
                  /\ clients' = clients \cup {c}
                  /\ "live" \in DOMAIN delivered'[c]
                  /\ delivered'[c].live = truthy(videoId)
                  /\ truthy(videoId) => delivered'[c] = LiveMsg(videoId)
                  /\ \A d \in Conn \ {c} : delivered'[d] = delivered[d]
             /\ UNCHANGED persisted
          \/ /\ resp'.status = 426
             /\ UNCHANGED <<persisted, clients, delivered>>
  /\ resp'.op = "/ws"
       => /\ resp'.status = 404
          /\ UNCHANGED <<persisted, clients, delivered>>
C29Step ==
  /\ resp'.op \in OtherPaths
       => /\ resp'.status = 404
          /\ UNCHANGED <<persisted, clients, delivered>>
  /\ resp'.status = 500 => UNCHANGED persisted
C29 == [][C29Step]_vars

\* The byte strings compared: every string of at most MaxTokenLen bytes over
\* the bytes of the secret and one more.
TokenBytes == {51, 52, 115}
TokenStrings == UNION { [1..n -> TokenBytes] : n \in 0..MaxTokenLen }

\* The position of the first byte in which two strings of one length
\* differ; one past the end when they are equal.
RECURSIVE firstMismatchFrom(_, _, _)
firstMismatchFrom(a, b, i) ==
  IF i > Len(a) \/ a[i] # b[i] THEN i ELSE firstMismatchFrom(a, b, i + 1)

\* C30: for two byte strings of one length, equals makes as many byte
\* comparisons as the strings are long, wherever their first mismatch is;
\* so for each X-Webhook-Token as long as the secret.
C30Check ==
  \A a \in TokenStrings : \A b \in TokenStrings :
    Len(a) = Len(b)
      => /\ comparisons(a, b) = Len(a)
         /\ \A c \in TokenStrings :
              (Len(c) = Len(a) /\ firstMismatchFrom(a, c, 1) # firstMismatchFrom(a, b, 1))
                => comparisons(a, c) = comparisons(a, b)
C30 ==
  /\ C30Check
  /\ (/\ ReadPush(resp)
      /\ resp.req.tokenHdr # None
      /\ Len(resp.req.tokenHdr[1]) = Len(WEBHOOK_SECRET))
       => comparisons(resp.req.tokenHdr[1], WEBHOOK_SECRET) = Len(WEBHOOK_SECRET)

\* A token that differs from the secret in its first byte has been turned
\* away; one differing in the last byte takes as many comparisons.
C30Witness ==
  /\ ReadPush(resp)
  /\ resp.req.tokenHdr = Some(<<114, 51>>)
  /\ resp.status = 401
  /\ firstMismatchFrom(<<114, 51>>, WEBHOOK_SECRET, 1) = 1
  /\ firstMismatchFrom(<<115, 52>>, WEBHOOK_SECRET, 1) = 2
  /\ comparisons(<<114, 51>>, WEBHOOK_SECRET) = comparisons(<<115, 52>>, WEBHOOK_SECRET)

\* C31, as the code has it: the socket is already in the set of connections
\* when its first message is sent; joining and first message are one step,
\* the message is the document of the id stored in that step, and every
\* connection in the set has had its first message, so no broadcast reaches
\* a connection before it.
C31Step ==
  /\ \A c \in Conn :
       (c \notin clients /\ c \in clients')
         => /\ c \in clientsAtSnapshot(c)
            /\ clients' = clientsAtSnapshot(c)
            /\ delivered[c] = NoMsg
            /\ delivered'[c] = JSONstringify(truthy(videoId'), videoId')
            /\ videoId' = videoId
  /\ (resp'.op = "GET /" /\ resp'.status = 101) => clients' # clients
  /\ \A c \in clients' : delivered'[c] # NoMsg
C31 == [][C31Step]_vars

\* C31, as stated: the socket is not yet in the set of connections when its
\* first message is sent.
C31Stated ==
  [][\A c \in Conn :
       (c \notin clients /\ c \in clients') => c \notin clientsAtSnapshot(c)]_vars

\* A connection joined while v1 was stored and announced to another: its
\* first message is v1's document.
C31Witness ==
  /\ resp.op = "GET /"
  /\ resp.status = 101
  /\ videoId = "v1"
  /\ clients = 1..MaxConn
  /\ \A c \in clients : delivered[c] = LiveMsg("v1")
  /\ lastFlush # None

\* A handler of each kind that is waiting for its external call can take
\* the answer, whatever else is waiting.
C32NoLock ==
  /\ pushes # {} => ENABLED (\E vid \in Vids, r \in VideosResponses : WebhookLookupDone(vid, r))
  /\ flushing > 0 => ENABLED (\E r \in SearchResponses : FlushSearchDone(r))
  /\ sched.pc = "lookup" => ENABLED (\E r \in VideosResponses : SchedLookupDone(r))
  /\ sched.pc = "update" => ENABLED SchedUpdate

\* C32: with another handler waiting for its external call, a push whose
\* lookup answers live stores its id, a flush whose search answers stores
\* its result, and the pass's POST /update deletes the id: the stored id is
\* what the step that wrote last wrote. The step that starts a handler and
\* leaves it waiting writes no id, and a waiting handler of either kind can
\* always take its answer.
C32Step ==
  /\ InFlight > 1
       => /\ \A vid \in pushes : \A r \in VideosResponses :
               (~lookupFailed(r) /\ isLivestream(r) /\ WebhookLookupDone(vid, r))
                 => videoId' = vid
          /\ \A r \in SearchResponses :
               (~searchFailed(r) /\ FlushSearchDone(r)) => videoId' = firstLive(r)
          /\ (sched.pc = "update" /\ SchedUpdate) => videoId' = Undefined
  /\ resp'.status = Pending => videoId' = videoId
C32 == []C32NoLock /\ [][C32Step]_vars

\* A push for v2 and a flush were waiting at the same time while v1 was
\* stored; the push's lookup answered first and v2 is stored, the flush
\* still waiting.
C32Witness ==
  /\ resp.op = "POST /webhook"
  /\ resp.log = <<"Detected livestream:", "v2">>
  /\ videoId = "v2"
  /\ flushing = 1
  /\ lastFlush # None

\* C33: a connection joins the set of connections in its connect step only;
\* it leaves the set at its close, and at the first broadcast in which the
\* send to it throws; and a connection that is not in the set is sent
\* nothing.
C33Step ==
  /\ \A c \in Conn :
       /\ (c \notin clients /\ c \in clients')
            => resp'.op = "GET /" /\ resp'.status = 101
       /\ (c \notin clients /\ c \notin clients') => delivered'[c] = delivered[c]
       /\ (c \in clients /\ c \notin clients') => delivered'[c] = NoMsg
  /\ resp'.op = "close" => \E c \in clients : clients' = clients \ {c}
  /\ resp' = thrown(resp'.op) => \E f \in clients : clients' = clients \ {f}
C33 == [][C33Step]_vars

\* C34: a renewal request is issued only by the first step of a pass, one
\* per pass, and the step that takes its failure issues none; a pass that
\* starts with no request on its way and reads a pshbExpires inside the
\* renewal window issues the request, whatever happened to earlier
\* requests, and can start whenever the previous answer is in; only an
\* accepted handshake changes pshbExpires.
C34Again ==
  (Readable /\ InWindow /\ renewal = None /\ sched.pc = "idle" /\ InFlight < scope.inflight)
    => ENABLED (SchedStart /\ renewal' = Some(renewalRequest))
C34Step ==
  /\ (renewal' # renewal /\ renewal' # None)
       => /\ sched.pc = "idle" /\ resp'.op = "scheduled"
          /\ renewal = None /\ renewal' = Some(renewalRequest)
  /\ resp'.op = "POST /subscribe"
       => renewal' = None /\ pshbExpires' = pshbExpires /\ sched' = sched
  /\ (sched.pc = "idle" /\ resp'.op = "scheduled" /\ renewal = None /\ Readable)
       => (renewal' = Some(renewalRequest) <=> InWindow)
  /\ (Readable /\ InWindow /\ ~(Readable' /\ InWindow'))
       => ReadQuery(resp') /\ Verifies(resp'.req) /\ resp'.status = 200
C34 == []C34Again /\ [][C34Step]_vars

\* A renewal request has just failed, later than the start, with pshbExpires
\* still inside the window: the next pass can start and issues the request
\* again.
C34Witness ==
  /\ resp.op = "POST /subscribe"
  /\ resp.status = 404
  /\ renewal = None
  /\ Readable /\ InWindow
  /\ now > T0
  /\ sched = Idle
  /\ ENABLED (SchedStart /\ renewal' = Some(renewalRequest))

\* C35: the step in which a pass clears the recorded video id clears the id
\* the pass read and looked up: an id a push, a flush or an update recorded
\* after the pass's read is left in place.
C35Step ==
  (sched.pc = "update" /\ resp'.op = "scheduled POST /update" /\ truthy(videoId))
    => (videoId = sched.videoId \/ videoId' = videoId)
C35 == [][C35Step]_vars

\* C36: whenever no handler is between two of its steps, the message last
\* sent to each connection in the set says what is stored: live with the
\* stored id when an id is stored, not live when none is.
C36 ==
  InFlight = 0
    => \A c \in clients :
         /\ "live" \in DOMAIN delivered[c]
         /\ delivered[c].live = truthy(videoId)
         /\ truthy(videoId) => delivered[c].videoId = videoId

\* The snapshots a state shows: the last message of each connection, and the
\* body of the response when it is a snapshot (/status, /flush 200 and 404).
IsSnapshot(m) == "live" \in DOMAIN m
Snapshots ==
  {delivered[c] : c \in Conn} \cup {resp.json}
IsVideoId(v) == v \notin {Undefined, Null, ""}

\* C37: in every snapshot sent or answered, live is true exactly when the
\* snapshot carries a videoId that is a non-empty string: never live with
\* a null, empty or missing id, never not live with an id.
C37 ==
  \A m \in Snapshots :
    IsSnapshot(m) => (m.live <=> ("videoId" \in DOMAIN m /\ IsVideoId(m.videoId)))

\* POST /update with the empty string as id was broadcast as not live, and
\* /status then answers not live, with no id.
C37Witness ==
  /\ \E c \in clients : delivered[c] = [live |-> FALSE, videoId |-> ""]
  /\ resp.op = "GET /status"
  /\ resp.json = [live |-> FALSE]

\* Flushes that can have been accepted by now: one at the start, and one
\* more for every cooldown's time since.
C38Windows == 1 + (now - T0) \div COOLDOWN

\* C38: the step that lets a flush through to the search reads a lastFlush
\* at least a cooldown old (or none) and stores now in the same step, so the
\* next flush reads the new value; a flush that reads a younger lastFlush is
\* answered 429 and searches nothing; and of the flushes waiting for their
\* search at the same time, no two were accepted within one cooldown.
C38Step ==
  /\ flushing' > flushing
       => /\ resp'.op = "POST /flush" /\ resp'.status = Pending
          /\ flushing' = flushing + 1
          /\ lastFlush # None => now - lastFlush[1] >= COOLDOWN
          /\ lastFlush' = Some(now)
  /\ (resp'.op = "POST /flush" /\ lastFlush # None /\ now - lastFlush[1] < COOLDOWN
        /\ flushing' >= flushing)
       => resp'.status = 429 /\ flushing' = flushing /\ lastFlush' = lastFlush
C38 == [](flushing <= C38Windows) /\ [][C38Step]_vars

\* With the first flush still waiting for its search, a second one arrived
\* at the same time and was answered 429.
C38Witness ==
  /\ flushing = 1
  /\ now = T0
  /\ lastFlush = Some(T0)
  /\ resp.op = "POST /flush"
  /\ resp.status = 429

\* The pass's lookup answers that the recorded video has ended.
EndedAnswer ==
  \E r \in {a \in VideosResponses : ~lookupFailed(a) /\ hasEnded(a)} : SchedLookupDone(r)
\* No step records an id that was not the recorded one.
NoOtherId == truthy(videoId') => videoId' = videoId

\* C39: with passes firing again and again and every started call answered,
\* if the lookup of a pass, whenever it is asked again and again, eventually
\* answers that the video has ended, and from some point on no step records
\* another id, then from some point on no video id is recorded, for good.
C39 ==
  (SF_vars(EndedAnswer) /\ <>[][NoOtherId]_vars) => <>[](~truthy(videoId))

\* A pass found the recorded video ended and cleared the id: the connection
\* was told, nothing is stored, and no handler is in progress.
C39Witness ==
  /\ resp.op = "scheduled POST /update"
  /\ resp.status = 204
  /\ videoId = Undefined
  /\ clients = {1}
  /\ delivered[1] = [live |-> FALSE, videoId |-> Null]
  /\ InFlight = 0
  /\ renewal = None

\* C40: under a setting other than "true" a pass is its first step only:
\* it sends the renewal request exactly when the pshbExpires it reads is
\* inside the window, starts no lookup, and leaves the recorded id and every
\* connection's last message as they are; a lookup of a pass, and a pass's
\* POST /update, happen under the setting "true" only.
C40Step ==
  /\ scope.enable # "true"
       => /\ sched'.pc = "idle"
          /\ resp'.op # "scheduled POST /update"
          /\ (sched.pc = "idle" /\ resp'.op = "scheduled")
               => /\ videoId' = videoId /\ delivered' = delivered
                  /\ (Readable /\ renewal = None)
                       => (renewal' = Some(renewalRequest) <=> InWindow)
                  /\ ~Readable => renewal' = renewal
  /\ (sched'.pc # "idle" \/ resp'.op = "scheduled POST /update")
       => scope.enable = "true"
C40 == [][C40Step]_vars

\* Under the setting "false", with an id recorded, a pass read a pshbExpires
\* inside the window and sent the renewal request; it started no lookup.
C40Witness ==
  /\ scope.enable = "false"
  /\ resp.op = "scheduled"
  /\ resp.json = [live |-> TRUE, videoId |-> "v1"]
  /\ renewal = Some(renewalRequest)
  /\ sched = Idle
  /\ videoId = "v1"

====
